---------------------------- MODULE Spec2Model ----------------------------
(***************************************************************************)
(* Model of the MCP agent of k8s_mcp (src/agent.py): the extraction of a   *)
(* tool call from the text of a model response (parse_tool_call), the      *)
(* construction of the request payload, the tool invocation (call_tool)    *)
(* and the interactive session loop (main).                                *)
(*                                                                         *)
(* A text is a sequence of one-character strings.  A Python value is a     *)
(* pair <<kind, content>>, the kind first so that any two values compare:  *)
(*   "none"   <<>>                      "bool"   TRUE / FALSE              *)
(*   "int"    the integer               "float"  <<num, sc>>, the number   *)
(*   "str"    the text                           num / 10^sc with no       *)
(*   "list"   the sequence of values             trailing zero in num      *)
(*   "dict"   the sequence of <<key text, value>> in insertion order       *)
(* Floats are exact decimals: the texts of the model are short enough for  *)
(* a double to hold each of them exactly as far as equality goes.  The     *)
(* texts contain no exponent, NaN or Infinity, and no backslash.           *)
(***************************************************************************)
EXTENDS Integers, Sequences, FiniteSets, TLC

-----------------------------------------------------------------------------
(* Characters *)

Digits == {"0", "1", "2", "3", "4", "5", "6", "7", "8", "9"}

UpperCase == <<"A", "B", "C", "D", "E", "F", "G", "H", "I", "J", "K", "L", "M",
               "N", "O", "P", "Q", "R", "S", "T", "U", "V", "W", "X", "Y", "Z">>

LowerCase == <<"a", "b", "c", "d", "e", "f", "g", "h", "i", "j", "k", "l", "m",
               "n", "o", "p", "q", "r", "s", "t", "u", "v", "w", "x", "y", "z">>

Letters == {UpperCase[i] : i \in 1..26} \cup {LowerCase[i] : i \in 1..26}

IsDigit(c) == c \in Digits

\* [A-Za-z0-9_]
IsIdentChar(c) == c \in Letters \/ c \in Digits \/ c = "_"

\* \s of re, and the characters str.strip() removes
IsSpace(c) == c \in {" ", "\t", "\n", "\r", "\f"}

\* re.IGNORECASE compares the lower-cased characters
ToLower(c) ==
    IF \E i \in 1..26 : UpperCase[i] = c
    THEN LowerCase[CHOOSE i \in 1..26 : UpperCase[i] = c]
    ELSE c

DigitVal(c) ==
    CASE c = "0" -> 0 [] c = "1" -> 1 [] c = "2" -> 2 [] c = "3" -> 3
      [] c = "4" -> 4 [] c = "5" -> 5 [] c = "6" -> 6 [] c = "7" -> 7
      [] c = "8" -> 8 [] c = "9" -> 9

DigitChar(d) ==
    CASE d = 0 -> "0" [] d = 1 -> "1" [] d = 2 -> "2" [] d = 3 -> "3"
      [] d = 4 -> "4" [] d = 5 -> "5" [] d = 6 -> "6" [] d = 7 -> "7"
      [] d = 8 -> "8" [] d = 9 -> "9"

-----------------------------------------------------------------------------
(* Python values *)

Kind(x) == x[1]
Val(x) == x[2]

PyNone == <<"none", <<>>>>
PyBool(b) == <<"bool", b>>
PyInt(n) == <<"int", n>>
PyStr(s) == <<"str", s>>
PyList(l) == <<"list", l>>
PyDict(m) == <<"dict", m>>

RECURSIVE Normalise(_, _)
Normalise(num, sc) ==
    IF sc > 0 /\ num % 10 = 0 THEN Normalise(num \div 10, sc - 1)
    ELSE <<num, sc>>

\* the float num / 10^sc
PyFloat(num, sc) == <<"float", Normalise(num, sc)>>

\* bool(x) as used by "if x:" and "not x" on the values main tests
Truthy(x) ==
    CASE x[1] = "none" -> FALSE
      [] x[1] = "bool" -> x[2]
      [] x[1] = "int" -> x[2] # 0
      [] x[1] = "float" -> x[2][1] # 0
      [] OTHER -> x[2] # <<>>

-----------------------------------------------------------------------------
(* Text helpers *)

\* text[i..j], empty when j < i
Sub(s, i, j) == IF j < i THEN <<>> ELSE SubSeq(s, i, j)

\* the pattern p stands in s at position i
StartsAt(s, i, p) ==
    /\ i >= 1
    /\ i + Len(p) - 1 <= Len(s)
    /\ \A n \in 1..Len(p) : s[i + n - 1] = p[n]

\* the same, comparing lower-cased characters (p is lower case)
StartsAtNoCase(s, i, p) ==
    /\ i >= 1
    /\ i + Len(p) - 1 <= Len(s)
    /\ \A n \in 1..Len(p) : ToLower(s[i + n - 1]) = p[n]

\* Python's "p in s"
Contains(s, p) == \E i \in 1..(Len(s) + 1) : StartsAt(s, i, p)

Min(S) == CHOOSE x \in S : \A y \in S : x <= y
Max(S) == CHOOSE x \in S : \A y \in S : x >= y

\* first position >= i whose character is not in the class, Len(s)+1 if none
RECURSIVE SkipSpace(_, _)
SkipSpace(s, i) ==
    IF i <= Len(s) /\ IsSpace(s[i]) THEN SkipSpace(s, i + 1) ELSE i

RECURSIVE SkipDigits(_, _)
SkipDigits(s, i) ==
    IF i <= Len(s) /\ IsDigit(s[i]) THEN SkipDigits(s, i + 1) ELSE i

RECURSIVE SkipIdent(_, _)
SkipIdent(s, i) ==
    IF i <= Len(s) /\ IsIdentChar(s[i]) THEN SkipIdent(s, i + 1) ELSE i

\* first position >= i holding character c, 0 if none
RECURSIVE IndexOf(_, _, _)
IndexOf(s, c, i) ==
    IF i > Len(s) THEN 0
    ELSE IF s[i] = c THEN i ELSE IndexOf(s, c, i + 1)

\* str.strip(chars): drop the characters of the set at both ends
RECURSIVE StripSet(_, _)
StripSet(s, cs) ==
    IF s = <<>> THEN s
    ELSE IF s[1] \in cs THEN StripSet(Tail(s), cs)
    ELSE IF s[Len(s)] \in cs THEN StripSet(Sub(s, 1, Len(s) - 1), cs)
    ELSE s

\* str.strip()
Strip(s) == StripSet(s, {" ", "\t", "\n", "\r", "\f"})

\* str.lower()
Lower(s) == [i \in 1..Len(s) |-> ToLower(s[i])]

\* str.split(","): the pieces between the commas, empty pieces included
RECURSIVE Split(_, _)
Split(s, c) ==
    LET i == IndexOf(s, c, 1)
    IN  IF i = 0 THEN <<s>>
        ELSE <<Sub(s, 1, i - 1)>> \o Split(Sub(s, i + 1, Len(s)), c)

RECURSIVE DigitsToNat(_)
DigitsToNat(s) ==
    IF s = <<>> THEN 0
    ELSE DigitsToNat(Sub(s, 1, Len(s) - 1)) * 10 + DigitVal(s[Len(s)])

RECURSIVE NatToDigits(_)
NatToDigits(n) ==
    IF n < 10 THEN <<DigitChar(n)>>
    ELSE NatToDigits(n \div 10) \o <<DigitChar(n % 10)>>

RECURSIVE Pow10(_)
Pow10(n) == IF n = 0 THEN 1 ELSE 10 * Pow10(n - 1)

-----------------------------------------------------------------------------
(* The conversions of the Python library that parse_tool_call relies on *)

Failed == [ok |-> FALSE, val |-> PyNone, pos |-> 0]
Parsed(x, p) == [ok |-> TRUE, val |-> x, pos |-> p]

\* a run of digits with single underscores between digits, as the int and
\* float constructors accept it
IsDigitGroup(s) ==
    /\ s # <<>>
    /\ \A i \in 1..Len(s) : IsDigit(s[i]) \/ s[i] = "_"
    /\ IsDigit(s[1])
    /\ IsDigit(s[Len(s)])
    /\ \A i \in 1..(Len(s) - 1) : ~(s[i] = "_" /\ s[i + 1] = "_")

GroupDigits(s) == SelectSeq(s, IsDigit)

\* int(p): ok = FALSE stands for ValueError
py_int(p) ==
    LET t == Strip(p)
        signed == t # <<>> /\ t[1] \in {"+", "-"}
        body == IF signed THEN Tail(t) ELSE t
        mag == DigitsToNat(GroupDigits(body))
    IN  IF IsDigitGroup(body)
        THEN Parsed(PyInt(IF signed /\ t[1] = "-" THEN 0 - mag ELSE mag), 0)
        ELSE Failed

\* float(p) for decimal notation: ok = FALSE stands for ValueError
py_float(p) ==
    LET t == Strip(p)
        signed == t # <<>> /\ t[1] \in {"+", "-"}
        body == IF signed THEN Tail(t) ELSE t
        d == IndexOf(body, ".", 1)
        ip == IF d = 0 THEN body ELSE Sub(body, 1, d - 1)
        fp == IF d = 0 THEN <<>> ELSE Sub(body, d + 1, Len(body))
        wellFormed == /\ ip = <<>> \/ IsDigitGroup(ip)
                      /\ fp = <<>> \/ IsDigitGroup(fp)
                      /\ ip # <<>> \/ fp # <<>>
        mag == DigitsToNat(GroupDigits(ip) \o GroupDigits(fp))
        sc == Len(GroupDigits(fp))
    IN  IF wellFormed
        THEN Parsed(PyFloat(IF signed /\ t[1] = "-" THEN 0 - mag ELSE mag, sc), 0)
        ELSE Failed

\* dict[key] = val: a later duplicate key replaces the value
DictPut(m, key, val) ==
    IF \E i \in 1..Len(m) : m[i][1] = key
    THEN [i \in 1..Len(m) |-> IF m[i][1] = key THEN <<key, val>> ELSE m[i]]
    ELSE Append(m, <<key, val>>)

\* dict.get(key): None when the key is absent
DictGet(d, key) ==
    IF \E i \in 1..Len(d[2]) : d[2][i][1] = key
    THEN d[2][CHOOSE i \in 1..Len(d[2]) : d[2][i][1] = key][2]
    ELSE PyNone

\* the JSON decoder's whitespace
RECURSIVE JsonSkipWs(_, _)
JsonSkipWs(s, i) ==
    IF i <= Len(s) /\ s[i] \in {" ", "\t", "\n", "\r"} THEN JsonSkipWs(s, i + 1)
    ELSE i

CharAt(s, i) == IF i >= 1 /\ i <= Len(s) THEN s[i] ELSE ""

\* a number at position i: -?(0|[1-9]\d*)(\.\d+)?
JsonNumber(s, i) ==
    LET neg == CharAt(s, i) = "-"
        j == IF neg THEN i + 1 ELSE i
        ie == IF CharAt(s, j) = "0" THEN j + 1 ELSE SkipDigits(s, j)
        hasFrac == CharAt(s, ie) = "." /\ IsDigit(CharAt(s, ie + 1))
        fe == IF hasFrac THEN SkipDigits(s, ie + 1) ELSE ie
        ipart == DigitsToNat(Sub(s, j, ie - 1))
        all == DigitsToNat(Sub(s, j, ie - 1) \o Sub(s, ie + 1, fe - 1))
    IN  IF ~IsDigit(CharAt(s, j)) THEN Failed
        ELSE IF hasFrac
        THEN Parsed(PyFloat(IF neg THEN 0 - all ELSE all, fe - ie - 1), fe)
        ELSE Parsed(PyInt(IF neg THEN 0 - ipart ELSE ipart), ie)

\* a string at position i (s[i] is the opening quote); the decoder rejects
\* control characters inside a string
JsonString(s, i) ==
    LET e == IndexOf(s, "\"", i + 1)
    IN  IF e = 0 THEN Failed
        ELSE IF \E n \in (i + 1)..(e - 1) : s[n] \in {"\t", "\n", "\r", "\f"}
        THEN Failed
        ELSE Parsed(PyStr(Sub(s, i + 1, e - 1)), e + 1)

L_true == <<"t", "r", "u", "e">>
L_false == <<"f", "a", "l", "s", "e">>
L_null == <<"n", "u", "l", "l">>

RECURSIVE JsonValue(_, _)
RECURSIVE JsonElements(_, _, _)
RECURSIVE JsonMembers(_, _, _)

\* the value that starts at position i
JsonValue(s, i) ==
    LET c == CharAt(s, i)
    IN  CASE c = "\"" -> JsonString(s, i)
          [] c = "[" ->
               LET j == JsonSkipWs(s, i + 1)
               IN  IF CharAt(s, j) = "]" THEN Parsed(PyList(<<>>), j + 1)
                   ELSE JsonElements(s, j, <<>>)
          [] c = "{" ->
               LET j == JsonSkipWs(s, i + 1)
               IN  IF CharAt(s, j) = "}" THEN Parsed(PyDict(<<>>), j + 1)
                   ELSE JsonMembers(s, j, <<>>)
          [] c = "t" /\ StartsAt(s, i, L_true) -> Parsed(PyBool(TRUE), i + 4)
          [] c = "f" /\ StartsAt(s, i, L_false) -> Parsed(PyBool(FALSE), i + 5)
          [] c = "n" /\ StartsAt(s, i, L_null) -> Parsed(PyNone, i + 4)
          [] c = "-" \/ IsDigit(c) -> JsonNumber(s, i)
          [] OTHER -> Failed

\* the elements of an array from position i on, acc holding the earlier ones
JsonElements(s, i, acc) ==
    LET e == JsonValue(s, i)
        j == JsonSkipWs(s, e.pos)
    IN  IF ~e.ok THEN Failed
        ELSE IF CharAt(s, j) = "]" THEN Parsed(PyList(Append(acc, e.val)), j + 1)
        ELSE IF CharAt(s, j) = ","
        THEN JsonElements(s, JsonSkipWs(s, j + 1), Append(acc, e.val))
        ELSE Failed

\* the members of an object from position i on
JsonMembers(s, i, acc) ==
    LET key == IF CharAt(s, i) = "\"" THEN JsonString(s, i) ELSE Failed
        c == JsonSkipWs(s, key.pos)
        e == JsonValue(s, JsonSkipWs(s, c + 1))
        j == JsonSkipWs(s, e.pos)
    IN  IF ~key.ok \/ CharAt(s, c) # ":" THEN Failed
        ELSE IF ~e.ok THEN Failed
        ELSE IF CharAt(s, j) = "}"
        THEN Parsed(PyDict(DictPut(acc, key.val[2], e.val)), j + 1)
        ELSE IF CharAt(s, j) = ","
        THEN JsonMembers(s, JsonSkipWs(s, j + 1), DictPut(acc, key.val[2], e.val))
        ELSE Failed

\* json.loads(s): the whole text is one value; ok = FALSE stands for
\* json.JSONDecodeError
json_loads(s) ==
    LET r == JsonValue(s, JsonSkipWs(s, 1))
    IN  IF r.ok /\ JsonSkipWs(s, r.pos) = Len(s) + 1 THEN r ELSE Failed

-----------------------------------------------------------------------------
(* parse_tool_call: src/agent.py, lines 74-138 *)

S_call_tool == <<"c", "a", "l", "l", "_", "t", "o", "o", "l", ":">>

S_with_arguments ==
    <<"w", "i", "t", "h", " ", "a", "r", "g", "u", "m", "e", "n", "t", "s", ":">>

S_args_key == <<"\"", "a", "r", "g", "s", "\"">>

S_args == <<"a", "r", "g", "s">>

NoMatch == [hit |-> FALSE, args |-> PyNone]
Match(a) == [hit |-> TRUE, args |-> a]

\* the marker with the identifier made optional, r"call_tool:([A-Za-z0-9_]*)"
MarkerAt_AnyName(s, i) == StartsAt(s, i, S_call_tool)

\* r"call_tool:([A-Za-z0-9_]+)" matches at position i
MarkerAt(s, i) ==
    StartsAt(s, i, S_call_tool) /\ IsIdentChar(CharAt(s, i + Len(S_call_tool)))

\* re.search of the marker: the leftmost match position, 0 for no match
SearchMarker(s) ==
    LET hits == {i \in 1..Len(s) : MarkerAt(s, i)}
    IN  IF hits = {} THEN 0 ELSE Min(hits)

\* m.group(1) of the marker matched at position i
MarkerName(s, i) ==
    Sub(s, i + Len(S_call_tool), SkipIdent(s, i + Len(S_call_tool)) - 1)

\* r"with arguments:\s*(\[[^\]]*\])" with re.IGNORECASE matches at position i
ListMatchAt(s, i) ==
    /\ StartsAtNoCase(s, i, S_with_arguments)
    /\ LET b == SkipSpace(s, i + Len(S_with_arguments))
       IN  CharAt(s, b) = "[" /\ IndexOf(s, "]", b + 1) # 0

\* list_match.group(1): from the bracket to the first closing bracket
ListGroup(s) ==
    LET hits == {i \in 1..Len(s) : ListMatchAt(s, i)}
        b == SkipSpace(s, Min(hits) + Len(S_with_arguments))
    IN  IF hits = {} THEN <<>> ELSE Sub(s, b, IndexOf(s, "]", b + 1))

\* the bracketed list read by hand, each piece through int(), not json.loads
list_style_ByHand(response) ==
    LET g == ListGroup(response)
        pieces == Split(Sub(g, 2, Len(g) - 1), ",")
    IN  IF g # <<>> /\ \A i \in 1..Len(pieces) : py_int(pieces[i]).ok
        THEN Match(PyList([i \in 1..Len(pieces) |-> py_int(pieces[i]).val]))
        ELSE NoMatch

\* 1) JSON-list style, lines 88-96
list_style(response) ==
    LET g == ListGroup(response)
        r == json_loads(g)
    IN  IF g # <<>> /\ r.ok THEN Match(r.val) ELSE NoMatch

\* r"call_tool:[A-Za-z0-9_]+\s*\(([^)]*)\)" matches at position i
ParenMatchAt(s, i) ==
    /\ MarkerAt(s, i)
    /\ LET b == SkipSpace(s, SkipIdent(s, i + Len(S_call_tool)))
       IN  CharAt(s, b) = "(" /\ IndexOf(s, ")", b + 1) # 0

\* paren_match.group(1): the interior of the parentheses
ParenGroup(s) ==
    LET i == Min({n \in 1..Len(s) : ParenMatchAt(s, n)})
        b == SkipSpace(s, SkipIdent(s, i + Len(S_call_tool)))
    IN  Sub(s, b + 1, IndexOf(s, ")", b + 1) - 1)

\* the token tried as a float whether or not it holds a decimal point
coerce_FloatFirst(p) ==
    IF py_float(p).ok THEN py_float(p).val
    ELSE IF py_int(p).ok THEN py_int(p).val
    ELSE PyStr(StripSet(p, {"\"", "'", " "}))

\* lines 106-112: one token of the parenthesized list
coerce(p) ==
    IF \E i \in 1..Len(p) : p[i] = "."
    THEN IF py_float(p).ok THEN py_float(p).val
         ELSE PyStr(StripSet(p, {"\"", "'", " "}))
    ELSE IF py_int(p).ok THEN py_int(p).val
         ELSE PyStr(StripSet(p, {"\"", "'", " "}))

\* line 103: the stripped, non-empty pieces between the commas
Parts(raw) ==
    LET pieces == Split(raw, ",")
        stripped == [i \in 1..Len(pieces) |-> Strip(pieces[i])]
        NonEmpty(p) == p # <<>>
    IN  SelectSeq(stripped, NonEmpty)

\* 2) Parentheses style, lines 98-114
paren_style(response) ==
    IF \E i \in 1..Len(response) : ParenMatchAt(response, i)
    THEN LET raw == Strip(ParenGroup(response))
             parts == Parts(raw)
         IN  IF raw # <<>>
             THEN Match(PyList([i \in 1..Len(parts) |-> coerce(parts[i])]))
             ELSE NoMatch
    ELSE NoMatch

\* r"(\{.*\"args\".*\})" with re.DOTALL matches from position i to position e
ObjMatch(s, i, e) ==
    /\ CharAt(s, i) = "{"
    /\ CharAt(s, e) = "}"
    /\ \E j \in (i + 1)..(e - Len(S_args_key)) : StartsAt(s, j, S_args_key)

\* json_obj_match.group(1): leftmost start, and both .* greedy
ObjGroup(s) ==
    LET starts == {i \in 1..Len(s) : \E e \in 1..Len(s) : ObjMatch(s, i, e)}
        i == Min(starts)
        e == Max({n \in 1..Len(s) : ObjMatch(s, i, n)})
    IN  IF starts = {} THEN <<>> ELSE Sub(s, i, e)

\* 3) JSON object style, lines 116-127
json_object_style(response) ==
    LET raw == ObjGroup(response)
        obj == json_loads(raw)
    IN  IF raw # <<>> /\ obj.ok /\ DictGet(obj.val, S_args)[1] = "list"
        THEN Match(DictGet(obj.val, S_args))
        ELSE NoMatch

\* re.findall(r"-?\d+\.?\d*", s) from position i on
RECURSIVE FindNumbers(_, _)
FindNumbers(s, i) ==
    IF i > Len(s) THEN <<>>
    ELSE LET st == IF s[i] = "-" THEN i + 1 ELSE i
             de == SkipDigits(s, st)
             e == IF CharAt(s, de) = "." THEN SkipDigits(s, de + 1) ELSE de
         IN  IF IsDigit(CharAt(s, st))
             THEN <<Sub(s, i, e - 1)>> \o FindNumbers(s, e)
             ELSE FindNumbers(s, i + 1)

\* line 134
to_number(n) ==
    IF \E i \in 1..Len(n) : n[i] = "." THEN py_float(n).val ELSE py_int(n).val

\* the fallback keeping the first two numbers only
fallback_numbers_FirstTwo(response) ==
    LET numbers == FindNumbers(response, 1)
    IN  IF Len(numbers) >= 2
        THEN Match(PyList(<<to_number(numbers[1]), to_number(numbers[2])>>))
        ELSE NoMatch

\* the fallback taking a single number too
fallback_numbers_AnyCount(response) ==
    LET numbers == FindNumbers(response, 1)
    IN  IF Len(numbers) >= 1
        THEN Match(PyList([i \in 1..Len(numbers) |-> to_number(numbers[i])]))
        ELSE NoMatch

\* the fallback reading the text that follows the tool name only
fallback_numbers_AfterMarker(response) ==
    LET i == SearchMarker(response)
        numbers == FindNumbers(response,
                               IF i = 0 THEN 1
                               ELSE SkipIdent(response, i + Len(S_call_tool)))
    IN  IF Len(numbers) >= 2
        THEN Match(PyList([n \in 1..Len(numbers) |-> to_number(numbers[n])]))
        ELSE NoMatch

\* 4) Fallback: numbers in text, lines 129-136
fallback_numbers(response) ==
    LET numbers == FindNumbers(response, 1)
    IN  IF Len(numbers) >= 2
        THEN Match(PyList([i \in 1..Len(numbers) |-> to_number(numbers[i])]))
        ELSE NoMatch

\* the extraction giving up with no arguments when the bracketed list after
\* "with arguments:" cannot be read
parse_tool_call_ListOrNothing(response) ==
    IF response = <<>> \/ SearchMarker(response) = 0 THEN <<PyNone, PyNone>>
    ELSE LET tool_name == PyStr(MarkerName(response, SearchMarker(response)))
         IN  IF list_style(response).hit THEN <<tool_name, list_style(response).args>>
             ELSE IF ListGroup(response) # <<>> THEN <<tool_name, PyList(<<>>)>>
             ELSE IF paren_style(response).hit THEN <<tool_name, paren_style(response).args>>
             ELSE IF json_object_style(response).hit THEN <<tool_name, json_object_style(response).args>>
             ELSE IF fallback_numbers(response).hit THEN <<tool_name, fallback_numbers(response).args>>
             ELSE <<tool_name, PyList(<<>>)>>

\* the pair (tool_name, args_list) that parse_tool_call returns
parse_tool_call(response) ==
    IF response = <<>> \/ SearchMarker(response) = 0 THEN <<PyNone, PyNone>>
    ELSE LET tool_name == PyStr(MarkerName(response, SearchMarker(response)))
         IN  IF list_style(response).hit
             THEN <<tool_name, list_style(response).args>>
             ELSE IF paren_style(response).hit
             THEN <<tool_name, paren_style(response).args>>
             ELSE IF json_object_style(response).hit
             THEN <<tool_name, json_object_style(response).args>>
             ELSE IF fallback_numbers(response).hit
             THEN <<tool_name, fallback_numbers(response).args>>
             ELSE <<tool_name, PyList(<<>>)>>

-----------------------------------------------------------------------------
(* Texts *)

(* The tools of the provider: src/tools/add_numbers.py, src/tools/time_tool.py *)

\* 'add_numbers'
N_add_numbers ==
    <<"a", "d", "d", "_", "n", "u", "m", "b", "e", "r", "s">>

\* 'get_current_time'
N_get_current_time ==
    <<"g", "e", "t", "_", "c", "u", "r", "r", "e", "n", "t", "_", "t",
      "i", "m", "e">>

(* Texts a model response is put together from: a head, then a
   parenthesized list, a bracketed clause, an object and a tail *)

\* 'call_tool:add_numbers'
H_add_numbers ==
    <<"c", "a", "l", "l", "_", "t", "o", "o", "l", ":", "a", "d", "d",
      "_", "n", "u", "m", "b", "e", "r", "s">>

\* 'call_tool:tool2'
H_tool2 ==
    <<"c", "a", "l", "l", "_", "t", "o", "o", "l", ":", "t", "o", "o",
      "l", "2">>

\* 'call_tool: add_numbers'
H_bare ==
    <<"c", "a", "l", "l", "_", "t", "o", "o", "l", ":", " ", "a", "d",
      "d", "_", "n", "u", "m", "b", "e", "r", "s">>

\* 'Sure, call_tool:Add_numbers'
H_case ==
    <<"S", "u", "r", "e", ",", " ", "c", "a", "l", "l", "_", "t", "o",
      "o", "l", ":", "A", "d", "d", "_", "n", "u", "m", "b", "e", "r",
      "s">>

\* 'call_tool:get_current_time'
H_time ==
    <<"c", "a", "l", "l", "_", "t", "o", "o", "l", ":", "g", "e", "t",
      "_", "c", "u", "r", "r", "e", "n", "t", "_", "t", "i", "m", "e">>

\* '(3, 5)'
P_two ==
    <<"(", "3", ",", " ", "5", ")">>

\* '()'
P_empty ==
    <<"(", ")">>

\* ' ( 3.5,abc, \'abc\' ,1.2.3,, "7")'
P_mixed ==
    <<" ", "(", " ", "3", ".", "5", ",", "a", "b", "c", ",", " ", "'",
      "a", "b", "c", "'", " ", ",", "1", ".", "2", ".", "3", ",", ",",
      " ", "\"", "7", "\"", ")">>

\* '(,)'
P_commas ==
    <<"(", ",", ")">>

\* ' with arguments: [3, 5]'
W_two ==
    <<" ", "w", "i", "t", "h", " ", "a", "r", "g", "u", "m", "e", "n",
      "t", "s", ":", " ", "[", "3", ",", " ", "5", "]">>

\* ' with arguments: []'
W_empty ==
    <<" ", "w", "i", "t", "h", " ", "a", "r", "g", "u", "m", "e", "n",
      "t", "s", ":", " ", "[", "]">>

\* ' With ARGUMENTS:\n[-1.50, "x", 0]'
W_mixed ==
    <<" ", "W", "i", "t", "h", " ", "A", "R", "G", "U", "M", "E", "N",
      "T", "S", ":", "\n", "[", "-", "1", ".", "5", "0", ",", " ", "\"",
      "x", "\"", ",", " ", "0", "]">>

\* ' with arguments: [[1], 2]'
W_nested ==
    <<" ", "w", "i", "t", "h", " ", "a", "r", "g", "u", "m", "e", "n",
      "t", "s", ":", " ", "[", "[", "1", "]", ",", " ", "2", "]">>

\* ' with arguments: ["a]", 1]'
W_bracket ==
    <<" ", "w", "i", "t", "h", " ", "a", "r", "g", "u", "m", "e", "n",
      "t", "s", ":", " ", "[", "\"", "a", "]", "\"", ",", " ", "1", "]">>

\* ' with arguments: [3, 5,]'
W_invalid ==
    <<" ", "w", "i", "t", "h", " ", "a", "r", "g", "u", "m", "e", "n",
      "t", "s", ":", " ", "[", "3", ",", " ", "5", ",", "]">>

\* ' with arguments: [a, b]'
W_words ==
    <<" ", "w", "i", "t", "h", " ", "a", "r", "g", "u", "m", "e", "n", "t",
      "s", ":", " ", "[", "a", ",", " ", "b", "]">>

\* ' or {}'
T_braces ==
    <<" ", "o", "r", " ", "{", "}">>

\* ' then call_tool:add_numbers(abc, 5)'
M_later ==
    <<" ", "t", "h", "e", "n", " ", "c", "a", "l", "l", "_", "t", "o", "o",
      "l", ":", "a", "d", "d", "_", "n", "u", "m", "b", "e", "r", "s", "(",
      "a", "b", "c", ",", " ", "5", ")">>

\* ' {"args": [1, "a"]}'
O_list ==
    <<" ", "{", "\"", "a", "r", "g", "s", "\"", ":", " ", "[", "1", ",",
      " ", "\"", "a", "\"", "]", "}">>

\* ' with arguments: [true, null]'
W_null ==
    <<" ", "w", "i", "t", "h", " ", "a", "r", "g", "u", "m", "e", "n",
      "t", "s", ":", " ", "[", "t", "r", "u", "e", ",", " ", "n", "u",
      "l", "l", "]">>

\* ' {"args": [[1], false]}'
O_nested ==
    <<" ", "{", "\"", "a", "r", "g", "s", "\"", ":", " ", "[", "[", "1",
      "]", ",", " ", "f", "a", "l", "s", "e", "]", "}">>

\* ' {"args": 3}'
O_scalar ==
    <<" ", "{", "\"", "a", "r", "g", "s", "\"", ":", " ", "3", "}">>

\* ' please add 3 and 5'
T_two ==
    <<" ", "p", "l", "e", "a", "s", "e", " ", "a", "d", "d", " ", "3",
      " ", "a", "n", "d", " ", "5">>

\* ' now'
T_none ==
    <<" ", "n", "o", "w">>

\* ' add 7'
T_one ==
    <<" ", "a", "d", "d", " ", "7">>

\* ' is -4.5. or 10?'
T_signed ==
    <<" ", "i", "s", " ", "-", "4", ".", "5", ".", " ", "o", "r", " ",
      "1", "0", "?">>

(* What the user types *)

\* 'exit'
U_exit ==
    <<"e", "x", "i", "t">>

\* 'Quit'
U_quit ==
    <<"Q", "u", "i", "t">>

\* 'exit now'
U_exit_now ==
    <<"e", "x", "i", "t", " ", "n", "o", "w">>

(* str(e) of the exceptions a request raises *)

\* 'connection refused'
E_connection ==
    <<"c", "o", "n", "n", "e", "c", "t", "i", "o", "n", " ", "r", "e",
      "f", "u", "s", "e", "d">>

\* 'timed out'
E_timeout ==
    <<"t", "i", "m", "e", "d", " ", "o", "u", "t">>

\* '400 Bad Request'
E_status ==
    <<"4", "0", "0", " ", "B", "a", "d", " ", "R", "e", "q", "u", "e",
      "s", "t">>

\* 'Expecting value'
E_body ==
    <<"E", "x", "p", "e", "c", "t", "i", "n", "g", " ", "v", "a", "l",
      "u", "e">>

(* Keys of the payload and of a tool's answer *)

\* 'a'
K_a ==
    <<"a">>

\* 'b'
K_b ==
    <<"b">>

\* 'error'
K_error ==
    <<"e", "r", "r", "o", "r">>

\* 'result'
K_result ==
    <<"r", "e", "s", "u", "l", "t">>

-----------------------------------------------------------------------------
(* The environment: what the user, the model provider and the tool        *)
(* provider can answer                                                     *)

\* longest number sequence and longest parenthesized token list that
\* the model provider writes out in full
MaxArgs == 2

RECURSIVE SeqsUpTo(_, _)
SeqsUpTo(S, n) ==
    IF n = 0 THEN {<<>>}
    ELSE LET shorter == SeqsUpTo(S, n - 1)
         IN  shorter \cup {Append(q, x) : q \in {t \in shorter : Len(t) = n - 1}, x \in S}

RECURSIVE Join(_, _)
Join(parts, sep) ==
    IF parts = <<>> THEN <<>>
    ELSE IF Len(parts) = 1 THEN parts[1]
    ELSE parts[1] \o sep \o Join(Tail(parts), sep)

Heads == {<<>>, H_add_numbers, H_tool2, H_bare, H_case, H_time}
Parens == {<<>>, P_two, P_empty, P_mixed, P_commas}
Withs == {<<>>, W_two, W_empty, W_mixed, W_nested, W_bracket, W_invalid}
Objects == {<<>>, O_list, O_scalar}
Tails == {<<>>, T_two, T_none, T_one, T_signed}

Composed == {h \o p \o w \o o \o t :
               h \in Heads, p \in Parens, w \in Withs, o \in Objects, t \in Tails}

\* the numbers 3, -12, 0, 3.5, -0.5 and 2.0
Numbers == {PyInt(3), PyInt(0 - 12), PyInt(0), PyFloat(35, 1), PyFloat(0 - 5, 1),
            PyFloat(2, 0)}

NumberSeqs == SeqsUpTo(Numbers, MaxArgs)

\* a number as a JSON encoder writes it: 3, -12, 3.5, -0.5, 2.0
EncodeNumber(x) ==
    LET num == IF x[1] = "int" THEN x[2] ELSE x[2][1]
        sc == IF x[1] = "int" THEN 0 ELSE x[2][2]
        mag == IF num < 0 THEN 0 - num ELSE num
        ip == NatToDigits(mag \div Pow10(sc))
        fd == NatToDigits(mag % Pow10(sc))
        fp == [i \in 1..(sc - Len(fd)) |-> "0"] \o fd
    IN  (IF num < 0 THEN <<"-">> ELSE <<>>)
        \o ip
        \o (IF x[1] = "int" THEN <<>>
            ELSE IF sc = 0 THEN <<".", "0">> ELSE <<".">> \o fp)

\* 'call_tool:<name> with arguments: [n1, n2, ...]'
EncodeList(name, nums) ==
    S_call_tool \o name \o <<" ">> \o S_with_arguments \o <<" ", "[">>
    \o Join([i \in 1..Len(nums) |-> EncodeNumber(nums[i])], <<",", " ">>)
    \o <<"]">>

\* the tokens 3  3.5  abc  'abc'  1.2.3  "7"  -2  .5  ' x'  and the blank
\* token
Tokens == {<<"3">>, <<"3", ".", "5">>, <<"a", "b", "c">>,
           <<"'", "a", "b", "c", "'">>, <<"1", ".", "2", ".", "3">>,
           <<"\"", "7", "\"">>, <<"-", "2">>, <<".", "5">>,
           <<"'", " ", "x", "'">>, <<" ">>}

TokenSeqs == SeqsUpTo(Tokens, MaxArgs) \ {<<>>}

\* 'call_tool:<name>(t1, t2, ...)'
EncodeParen(name, toks) ==
    S_call_tool \o name \o <<"(">> \o Join(toks, <<",", " ">>) \o <<")">>

\* message.content of the model provider's answers; one is padded with
\* white space, two carry JSON values that are no numbers and no strings
Contents ==
    Composed
    \cup {EncodeList(N_add_numbers, nums) : nums \in NumberSeqs}
    \cup {EncodeParen(N_add_numbers, toks) : toks \in TokenSeqs}
    \cup {<<" ", "\n">> \o H_add_numbers \o P_two \o <<"\n">>}
    \cup {H_add_numbers \o W_null, H_add_numbers \o O_nested}
    \cup {H_add_numbers \o W_words \o t : t \in {<<>>, O_list, T_two}}
    \cup {H_add_numbers \o P_two \o W_words}
    \cup {H_add_numbers \o O_list \o T_braces, H_time \o M_later}

LLMReplies ==
    {[kind |-> "ok", content |-> c] : c \in Contents}
    \cup {[kind |-> k, content |-> <<>>] : k \in {"connection", "status", "body"}}

Tool(name, description, endpoint) ==
    [name |-> name, description |-> description, endpoint |-> endpoint]

\* the descriptors of src/tools as src/server.py lists them
T_add_numbers ==
    Tool(N_add_numbers, "Adds two numbers together.", "/tools/add_numbers")

T_get_current_time ==
    Tool(N_get_current_time, "Returns the current hour, minute, and second.",
         "/tools/get_current_time")

\* what a provider other than src/server.py may list: a second descriptor
\* named add_numbers, and descriptors that lack a field
T_add_numbers_again ==
    Tool(N_add_numbers, "Adds two numbers, second version.", "/tools/add_numbers_v2")

T_no_endpoint ==
    [name |-> N_add_numbers, description |-> "Adds two numbers together."]

T_no_name ==
    [description |-> "Adds two numbers together.", endpoint |-> "/tools/add_numbers"]

T_no_description ==
    [name |-> N_add_numbers, endpoint |-> "/tools/add_numbers"]

\* GET /tools.  kind "ok" is a success status with a JSON object as body,
\* and tools is what .get("tools", []) gives for it; "connection" is a
\* request that raises, "status" a non-success status, "body" a body that is
\* no JSON or no JSON object.
DiscoveryReplies ==
    {[kind |-> "ok", tools |-> PyList(l)] :
        l \in {<<T_add_numbers, T_get_current_time>>,
               <<>>,
               <<T_add_numbers, T_add_numbers_again>>,
               <<T_no_endpoint>>,
               <<T_no_name>>,
               <<T_no_description>>}}
    \cup {[kind |-> "ok", tools |-> PyNone]}
    \cup {[kind |-> k, tools |-> PyNone] : k \in {"connection", "status", "body"}}

ErrorResult(cause) == PyDict(<< <<K_error, PyStr(cause)>> >>)

\* the answers of a tool endpoint: a JSON body with a success status, or
\* one of the failures with the text of its exception
ToolBodies ==
    {PyDict(<< <<K_result, PyInt(8)>> >>),
     PyDict(<< <<K_error, PyStr(E_status)>> >>),
     PyList(<<PyInt(1), PyStr(K_a)>>),
     PyStr(K_result),
     PyNone}

ToolReplies ==
    {[kind |-> "ok", body |-> b, cause |-> <<>>] : b \in ToolBodies}
    \cup
    {
     [kind |-> "connection", body |-> PyNone, cause |-> E_connection],
     [kind |-> "timeout", body |-> PyNone, cause |-> E_timeout],
     [kind |-> "status", body |-> PyNone, cause |-> E_status],
     [kind |-> "body", body |-> PyNone, cause |-> E_body]}

NoReply == [kind |-> "none", body |-> PyNone, cause |-> <<>>]

\* two exit words, and a text that starts with one
UserInputs == {U_exit, U_quit, U_exit_now}

-----------------------------------------------------------------------------
(* The helpers of src/agent.py, lines 21-72, and the payload of main *)

\* get_tools answering a failure with a descriptor it has built in
get_tools_BuiltIn(reply) ==
    IF reply.kind = "ok" THEN reply.tools ELSE PyList(<<T_add_numbers>>)

\* get_tools: the "tools" value of the answer, [] on any failure
get_tools(reply) == IF reply.kind = "ok" THEN reply.tools ELSE PyList(<<>>)

\* ask_llm answering a failure with the text of the exception
ask_llm_ErrorText(reply) ==
    IF reply.kind = "ok" THEN [raised |-> FALSE, val |-> Strip(reply.content)]
    ELSE [raised |-> FALSE, val |-> E_connection]

\* ask_llm: the stripped content of the answer, "" on any failure.
\* raised = TRUE stands for an exception leaving the function.
ask_llm(reply) ==
    IF reply.kind = "ok" THEN [raised |-> FALSE, val |-> Strip(reply.content)]
    ELSE [raised |-> FALSE, val |-> <<>>]

\* call_tool catching the exceptions of the transport only: the ValueError
\* of an unparseable body leaves the function
call_tool_TransportOnly(reply) ==
    IF reply.kind = "ok" THEN [raised |-> FALSE, val |-> reply.body]
    ELSE IF reply.kind = "body" THEN [raised |-> TRUE, val |-> PyNone]
    ELSE [raised |-> FALSE, val |-> ErrorResult(reply.cause)]

\* call_tool handing out the "result" member of a body that has one
call_tool_ResultOnly(reply) ==
    IF reply.kind = "ok"
    THEN [raised |-> FALSE,
          val |-> IF Kind(reply.body) = "dict" /\ DictGet(reply.body, K_result) # PyNone
                  THEN DictGet(reply.body, K_result) ELSE reply.body]
    ELSE [raised |-> FALSE, val |-> ErrorResult(reply.cause)]

\* call_tool: the parsed body of the answer, {"error": str(e)} on any failure
call_tool(reply) ==
    IF reply.kind = "ok" THEN [raised |-> FALSE, val |-> reply.body]
    ELSE [raised |-> FALSE, val |-> ErrorResult(reply.cause)]

NoPrompt == [tools_text |-> <<>>, user_input |-> <<>>]

\* build_prompt listing the first tool only
build_prompt_FirstOnly(tls, input) ==
    IF Kind(tls) # "list" THEN [raised |-> TRUE, val |-> NoPrompt]
    ELSE [raised |-> FALSE,
          val |-> [tools_text |-> [i \in 1..Min({1, Len(Val(tls))}) |->
                                     <<Val(tls)[i].name, Val(tls)[i].description>>],
                   user_input |-> input]]

\* build_prompt, lines 159-183: the tool lines and the user's text are what
\* varies in the prompt.  Iterating over a tools value that is no list
\* raises TypeError.
build_prompt(tls, input) ==
    IF Kind(tls) # "list" THEN [raised |-> TRUE, val |-> NoPrompt]
    ELSE [raised |-> FALSE,
          val |-> [tools_text |-> [i \in 1..Len(Val(tls)) |->
                                     <<Val(tls)[i].name, Val(tls)[i].description>>],
                   user_input |-> input]]

\* the lookup comparing the names without regard to case
Lookup_IgnoreCase(tls, name) ==
    LET hits == {i \in 1..Len(tls) : Lower(tls[i].name) = Lower(name)}
    IN  IF hits = {} THEN 0 ELSE Min(hits)

\* the lookup giving the first descriptor when none has the name
Lookup_Default(tls, name) ==
    LET hits == {i \in 1..Len(tls) : tls[i].name = name}
    IN  IF hits = {} THEN Min({1, Len(tls)}) ELSE Min(hits)

\* line 204: the index of the first descriptor with that name, 0 for None
Lookup(tls, name) ==
    LET hits == {i \in 1..Len(tls) : tls[i].name = name}
    IN  IF hits = {} THEN 0 ELSE Min(hits)

\* the payload with a and b added from the third argument on only
build_payload_OverTwo(a) ==
    IF ~Truthy(a) THEN PyNone
    ELSE IF Len(a[2]) > 2
    THEN PyDict(<< <<S_args, a>>, <<K_a, a[2][1]>>, <<K_b, a[2][2]>> >>)
    ELSE PyDict(<< <<S_args, a>> >>)

\* lines 209-214: None, {"args": args} or {"args": args, "a": .., "b": ..}
build_payload(a) ==
    IF ~Truthy(a) THEN PyNone
    ELSE IF Len(a[2]) >= 2
    THEN PyDict(<< <<S_args, a>>, <<K_a, a[2][1]>>, <<K_b, a[2][2]>> >>)
    ELSE PyDict(<< <<S_args, a>> >>)

\* line 187
ExitWords == {U_exit, <<"q", "u", "i", "t">>}

-----------------------------------------------------------------------------
(* The session: main, lines 142-219 *)

VARIABLES
    tools,          \* the registry fetched at start, line 151
    discoveries,    \* the requests sent to GET /tools
    startup,        \* what lines 151-157 logged
    pc,             \* where main stands: "start", "input", "ask_llm",
                    \* "route", "call_tool", "exit", or "crashed" after an
                    \* exception has left main
    user_input,     \* locals of the loop body
    prompt,
    llm_response,
    tool_name,
    args,
    match,          \* index in tools of the descriptor found, 0 for None
    payload,
    result,
    tool_reply,     \* what the tool endpoint answered in this turn
    printed,        \* what the turn wrote to the user
    log,            \* the warnings and errors the turn logged
    posts,          \* the requests the turn sent to tool endpoints
    llm_calls,      \* the requests the turn sent to the model provider
    looked_up       \* whether the turn searched the registry

vars == <<tools, discoveries, startup, pc, user_input, prompt, llm_response, tool_name, args, match,
          payload, result, tool_reply, printed, log, posts, llm_calls, looked_up>>

NothingPrinted == [tag |-> "", val |-> PyNone]
Printed(tag, val) == [tag |-> tag, val |-> val]

\* the locals and the records of a turn before anything is assigned
FreshTurn ==
    /\ prompt = NoPrompt
    /\ llm_response = <<>>
    /\ tool_name = PyNone
    /\ args = PyNone
    /\ match = 0
    /\ payload = PyNone
    /\ result = PyNone
    /\ tool_reply = NoReply
    /\ printed = NothingPrinted
    /\ log = <<>>
    /\ posts = <<>>
    /\ llm_calls = 0
    /\ looked_up = FALSE

\* lines 142-149: main has started and nothing is fetched yet
Init ==
    /\ tools = PyNone
    /\ discoveries = 0
    /\ startup = <<>>
    /\ pc = "start"
    /\ user_input = <<>>
    /\ FreshTurn

\* a descriptor that line 157 can log
Loggable(t) == {"name", "description"} \subseteq DOMAIN t

\* lines 151-157: get_tools fetches the registry, and main logs what it
\* found; t['name'] and t['description'] raise KeyError for a descriptor
\* without that field.  Then the loop waits for the first input.
Discover ==
    /\ pc = "start"
    /\ \E reply \in DiscoveryReplies :
       \E fetched \in {get_tools(reply)} :
         /\ tools' = fetched
         /\ discoveries' = discoveries + 1
         /\ startup' = (IF reply.kind = "ok" THEN <<>>
                        ELSE <<"error: failed to fetch tools">>)
                       \o (IF Truthy(fetched) THEN <<"info: found tools">>
                           ELSE <<"warning: no tools found">>)
         /\ pc' = IF Truthy(fetched)
                     /\ \E i \in 1..Len(Val(fetched)) : ~Loggable(Val(fetched)[i])
                  THEN "crashed" ELSE "input"
    /\ UNCHANGED <<user_input, prompt, llm_response, tool_name, args, match,
                   payload, result, tool_reply, printed, log, posts, llm_calls,
                   looked_up>>

\* lines 186-191: input() returns.  An exit word leaves the loop; anything
\* else starts a turn, whose prompt is built.  The locals of the turn before
\* are dead from here on (each is assigned again before it is read), and the
\* model forgets them together with what that turn printed, logged and sent.
ReadInput ==
    /\ pc = "input"
    /\ \E text \in UserInputs :
         /\ user_input' = text
         /\ llm_response' = <<>>
         /\ tool_name' = PyNone
         /\ args' = PyNone
         /\ match' = 0
         /\ payload' = PyNone
         /\ result' = PyNone
         /\ tool_reply' = NoReply
         /\ printed' = NothingPrinted
         /\ posts' = <<>>
         /\ llm_calls' = 0
         /\ looked_up' = FALSE
         /\ IF Lower(text) \in ExitWords
            THEN /\ pc' = "exit"
                 /\ prompt' = NoPrompt
                 /\ log' = <<"info: exiting">>
            ELSE \E built \in {build_prompt(tools, text)} :
                 /\ pc' = IF built.raised THEN "crashed" ELSE "ask_llm"
                 /\ prompt' = built.val
                 /\ log' = <<>>
    /\ UNCHANGED <<tools, discoveries, startup>>

\* lines 193-195: ask_llm sends the prompt and returns
AskLLMFrom(replies) ==
    /\ pc = "ask_llm"
    /\ \E reply \in replies :
         LET r == ask_llm(reply)
         IN  /\ llm_calls' = llm_calls + 1
             /\ IF r.raised
                THEN /\ pc' = "crashed"
                     /\ UNCHANGED <<llm_response, log>>
                ELSE /\ pc' = "route"
                     /\ llm_response' = r.val
                     /\ log' = IF reply.kind = "ok" THEN log
                               ELSE Append(log, "error: llm failed")
    /\ UNCHANGED <<tools, discoveries, startup, user_input, prompt, tool_name,
                   args, match, payload, result, tool_reply, printed, posts,
                   looked_up>>

AskLLM == AskLLMFrom(LLMReplies)

\* lines 197-215 and 218-219: the response is a direct answer, or names a
\* tool that is looked up and whose payload is built
Route ==
    /\ pc = "route"
    /\ IF llm_response # <<>> /\ Contains(llm_response, S_call_tool)
       THEN \E parsed \in {parse_tool_call(llm_response)} :
            \E found \in {Lookup(Val(tools), parsed[1][2])} :
                /\ tool_name' = parsed[1]
                /\ args' = parsed[2]
                /\ IF ~Truthy(parsed[1])
                   THEN /\ log' = Append(log, "warning: no tool name")
                        /\ printed' = Printed("Assistant", PyStr(llm_response))
                        /\ pc' = "input"
                        /\ UNCHANGED <<match, payload, looked_up>>
                   ELSE /\ looked_up' = TRUE
                        /\ match' = found
                        /\ IF found = 0
                           THEN /\ log' = Append(log, "warning: tool not found")
                                /\ pc' = "input"
                                /\ UNCHANGED <<payload, printed>>
                           ELSE /\ payload' = build_payload(parsed[2])
                                /\ pc' = "call_tool"
                                /\ UNCHANGED <<log, printed>>
       ELSE /\ printed' = Printed("Assistant", PyStr(llm_response))
            /\ pc' = "input"
            /\ UNCHANGED <<tool_name, args, match, payload, log, looked_up>>
    /\ UNCHANGED <<tools, discoveries, startup, user_input, prompt,
                   llm_response, result, tool_reply, posts, llm_calls>>

\* lines 216-217: call_tool posts the payload to the endpoint of the
\* descriptor and returns; the result is printed.  match["endpoint"] raises
\* KeyError for a descriptor without that field, before anything is sent.
CallTool ==
    /\ pc = "call_tool"
    /\ IF "endpoint" \notin DOMAIN Val(tools)[match]
       THEN /\ pc' = "crashed"
            /\ UNCHANGED <<posts, tool_reply, result, printed, log>>
       ELSE \E reply \in ToolReplies :
            LET r == call_tool(reply)
            IN  /\ posts' = Append(posts, [endpoint |-> Val(tools)[match].endpoint,
                                           body |-> payload])
                /\ tool_reply' = reply
                /\ IF r.raised
                   THEN /\ pc' = "crashed"
                        /\ UNCHANGED <<result, printed, log>>
                   ELSE /\ pc' = "input"
                        /\ result' = r.val
                        /\ printed' = Printed("Tool result", r.val)
                        /\ log' = IF reply.kind = "ok" THEN log
                                  ELSE Append(log, "error: tool call failed")
    /\ UNCHANGED <<tools, discoveries, startup, user_input, prompt, llm_response,
                   tool_name, args, match, payload, llm_calls, looked_up>>

Next == Discover \/ ReadInput \/ AskLLM \/ Route \/ CallTool

Spec == Init /\ [][Next]_vars

\* main leaves the statement it stands at
MovesOn(at) == pc = at /\ pc' \in {"input", "route", "call_tool", "crashed"} \ {at}

\* The requests of ask_llm and call_tool carry a timeout (lines 43, 63, 65),
\* so each returns or raises, and main runs on from one statement to the
\* next: it does not stay at the model call, at the routing or at the tool
\* call for ever.  Nothing makes the user type, and nothing is asked of the
\* GET of line 23, which has no timeout.
LiveSpec ==
    Spec /\ WF_pc(MovesOn("ask_llm")) /\ WF_pc(MovesOn("route"))
         /\ WF_pc(MovesOn("call_tool"))

-----------------------------------------------------------------------------
(* The session with the locals of main left as Python leaves them *)

\* Python keeps llm_response, tool_name, args, match, payload and result from
\* one pass of the loop to the next; ReadInput forgets them.  The actions
\* below keep them, so that what a turn does with a value of the turn before
\* shows.  The records of what the turn printed, logged and sent start
\* empty at each turn, as before.

\* a chat that puts the response of the turn before into the prompt
ReadInputCarry_History ==
    /\ pc = "input"
    /\ \E text \in UserInputs :
         /\ user_input' = text
         /\ tool_reply' = NoReply
         /\ printed' = NothingPrinted
         /\ posts' = <<>>
         /\ llm_calls' = 0
         /\ looked_up' = FALSE
         /\ IF Lower(text) \in ExitWords
            THEN /\ pc' = "exit"
                 /\ prompt' = NoPrompt
                 /\ log' = <<"info: exiting">>
            ELSE \E built \in {build_prompt(tools, llm_response \o text)} :
                 /\ pc' = IF built.raised THEN "crashed" ELSE "ask_llm"
                 /\ prompt' = built.val
                 /\ log' = <<>>
    /\ UNCHANGED <<tools, discoveries, startup, llm_response, tool_name, args,
                   match, payload, result>>

\* lines 186-191, with the locals of the turn before left in place
ReadInputCarry ==
    /\ pc = "input"
    /\ \E text \in UserInputs :
         /\ user_input' = text
         /\ tool_reply' = NoReply
         /\ printed' = NothingPrinted
         /\ posts' = <<>>
         /\ llm_calls' = 0
         /\ looked_up' = FALSE
         /\ IF Lower(text) \in ExitWords
            THEN /\ pc' = "exit"
                 /\ prompt' = NoPrompt
                 /\ log' = <<"info: exiting">>
            ELSE \E built \in {build_prompt(tools, text)} :
                 /\ pc' = IF built.raised THEN "crashed" ELSE "ask_llm"
                 /\ prompt' = built.val
                 /\ log' = <<>>
    /\ UNCHANGED <<tools, discoveries, startup, llm_response, tool_name, args,
                   match, payload, result>>

\* responses of each kind: a call with two arguments, a call with none, a
\* tool that is not registered, a marker without a name, a direct answer,
\* two markers, and a model that cannot be reached
CarryReplies ==
    {[kind |-> "ok", content |-> c] :
       c \in {H_add_numbers \o W_two, H_time, H_tool2 \o T_one, H_bare, T_two,
              H_time \o M_later}}
    \cup {[kind |-> "connection", content |-> <<>>]}

AskLLMCarry == AskLLMFrom(CarryReplies)

CarryNext == Discover \/ ReadInputCarry \/ AskLLMCarry \/ Route \/ CallTool

CarrySpec == Init /\ [][CarryNext]_vars

-----------------------------------------------------------------------------
(* What the properties are stated with *)

\* the response of the turn has been routed: the loop waits again, or the
\* tool call is about to be made
Routed == llm_calls = 1 /\ pc \in {"input", "call_tool"}

\* the text holds call_tool: followed by an identifier
ContainsMarker(s) ==
    \E i \in 1..Len(s) : \E j \in i..Len(s) :
        /\ Sub(s, i, j - 1) = S_call_tool
        /\ IsIdentChar(s[j])

\* the identifier of the first marker of the text
FirstMarkerName(s) ==
    LET i == Min({n \in 1..Len(s) : StartsAt(s, n, S_call_tool)
                                    /\ IsIdentChar(CharAt(s, n + 10))})
        e == Min({n \in (i + 10)..(Len(s) + 1) : ~IsIdentChar(CharAt(s, n))})
    IN  Sub(s, i + 10, e - 1)

Registered(name) ==
    /\ Kind(tools) = "list"
    /\ \E i \in 1..Len(Val(tools)) : Val(tools)[i].name = name

\* the arrays that follow a "with arguments:" of the text, as a JSON parser
\* reads them
ArraysAfterWithArguments(s) ==
    {JsonValue(s, SkipSpace(s, i + Len(S_with_arguments))).val :
       i \in {n \in 1..Len(s) :
                /\ StartsAtNoCase(s, n, S_with_arguments)
                /\ JsonValue(s, SkipSpace(s, n + Len(S_with_arguments))).ok
                /\ JsonValue(s, SkipSpace(s, n + Len(S_with_arguments))).val[1] = "list"}}

\* a marker of the text is followed by a parenthesized list with a token
HasParenList(s) ==
    \E i \in 1..Len(s) : \E b \in i..Len(s) : \E e \in b..Len(s) :
        /\ MarkerAt(s, i)
        /\ b = SkipSpace(s, SkipIdent(s, i + Len(S_call_tool)))
        /\ s[b] = "("
        /\ s[e] = ")"
        /\ \A n \in (b + 1)..(e - 1) : s[n] # ")"
        /\ \E n \in (b + 1)..(e - 1) : ~IsSpace(s[n])

\* the payload the design asks for, for the arguments a
PayloadFor(body, a) ==
    /\ Len(a[2]) = 0 => body = PyNone
    /\ Len(a[2]) = 1 => body = PyDict(<< <<S_args, a>> >>)
    /\ Len(a[2]) >= 2 =>
         /\ body[1] = "dict"
         /\ {body[2][i][1] : i \in 1..Len(body[2])} = {S_args, K_a, K_b}
         /\ Len(body[2]) = 3
         /\ DictGet(body, S_args) = a
         /\ DictGet(body, K_a) = a[2][1]
         /\ DictGet(body, K_b) = a[2][2]

\* each number sequence with the text that writes it out
RoundTrips == {<<EncodeList(N_add_numbers, nums), nums>> : nums \in NumberSeqs}

\* the coercion rule of the design for one token
RuleCoerce(token) ==
    LET t == Strip(token)
    IN  IF (\E i \in 1..Len(t) : t[i] = ".") /\ py_float(t).ok THEN py_float(t).val
        ELSE IF py_int(t).ok THEN py_int(t).val
        ELSE PyStr(StripSet(t, {"\"", "'", " ", "\t", "\n", "\r", "\f"}))

NotBlank(token) == Strip(token) # <<>>

RuleCoerceAll(toks) ==
    LET kept == SelectSeq(toks, NotBlank)
    IN  [i \in 1..Len(kept) |-> RuleCoerce(kept[i])]

\* each token list with the text that writes it out and the arguments the
\* rule gives
ParenTrips ==
    {<<EncodeParen(N_add_numbers, toks), RuleCoerceAll(toks)>> : toks \in TokenSeqs}

\* the tokens of the design's examples: 3, 3.5, abc, 'abc' and 1.2.3
CoerceExamples ==
    {<<EncodeParen(N_add_numbers, <<ex[1]>>), <<ex[2]>> >> :
       ex \in {<< <<"3">>, PyInt(3)>>,
               << <<"3", ".", "5">>, PyFloat(35, 1)>>,
               << <<"a", "b", "c">>, PyStr(<<"a", "b", "c">>)>>,
               << <<"'", "a", "b", "c", "'">>, PyStr(<<"a", "b", "c">>)>>,
               << <<"1", ".", "2", ".", "3">>, PyStr(<<"1", ".", "2", ".", "3">>)>>}}

\* the numerals of a text (an optional minus sign, digits, an optional
\* decimal point, digits), read one character at a time; cur is the numeral
\* being read and phase tells how far it has got
RECURSIVE ScanNumerals(_, _, _, _)
ScanNumerals(s, i, cur, phase) ==
    IF i > Len(s)
    THEN IF phase \in {"int", "frac"} THEN <<cur>> ELSE <<>>
    ELSE LET c == s[i]
             done == IF phase \in {"int", "frac"} THEN <<cur>> ELSE <<>>
         IN  IF IsDigit(c)
             THEN ScanNumerals(s, i + 1,
                               IF phase = "idle" THEN <<c>> ELSE Append(cur, c),
                               IF phase = "frac" THEN "frac" ELSE "int")
             ELSE IF c = "." /\ phase = "int"
             THEN ScanNumerals(s, i + 1, Append(cur, c), "frac")
             ELSE IF c = "-"
             THEN done \o ScanNumerals(s, i + 1, <<c>>, "sign")
             ELSE done \o ScanNumerals(s, i + 1, <<>>, "idle")

Numerals(s) == ScanNumerals(s, 1, <<>>, "idle")

\* a numeral is an integer when written without a decimal point and a
\* float otherwise
NumeralValue(n) ==
    LET mag == DigitsToNat(SelectSeq(n, IsDigit))
        signed == IF n[1] = "-" THEN 0 - mag ELSE mag
        dot == IndexOf(n, ".", 1)
    IN  IF dot = 0 THEN PyInt(signed) ELSE PyFloat(signed, Len(n) - dot)

NumeralValues(s) == [i \in 1..Len(Numerals(s)) |-> NumeralValue(Numerals(s)[i])]

\* a fault has left main in a turn (and not at start, before the loop)
TurnFault == pc = "crashed" /\ user_input # <<>>

\* the loop is over: by the break of line 189 or by a fault
LoopEnded == pc = "exit" \/ TurnFault

\* a turn is under way: the user's text was no exit word and the loop has
\* not come back to input(); a fault that left main in the turn counts
Resolving ==
    \/ pc \in {"ask_llm", "route", "call_tool"}
    \/ TurnFault

\* the three outcomes of a turn
DirectAnswer == printed.tag = "Assistant"
DispatchResult == printed.tag = "Tool result"
NotFoundNotice == \E i \in 1..Len(log) : log[i] = "warning: tool not found"

ExactlyOneOutcome ==
    Cardinality({o \in {"answer", "result", "notice"} :
                   \/ o = "answer" /\ DirectAnswer
                   \/ o = "result" /\ DispatchResult
                   \/ o = "notice" /\ NotFoundNotice}) = 1

\* line 29 has logged that the registry could not be fetched
DiscoveryFailed == startup # <<>> /\ startup[1] = "error: failed to fetch tools"

\* line 51 has logged that the model could not be reached
LLMFailed == \E i \in 1..Len(log) : log[i] = "error: llm failed"

\* the prompt lists every descriptor of the registry once, in order
PromptLists(p, tls) ==
    /\ Kind(tls) = "list"
    /\ Len(p.tools_text) = Len(Val(tls))
    /\ \A i \in 1..Len(Val(tls)) :
         p.tools_text[i] = <<Val(tls)[i].name, Val(tls)[i].description>>

\* no two descriptors of the registry have the same name
DistinctNames(tls) ==
    \A i, j \in 1..Len(Val(tls)) :
        (i # j /\ "name" \in DOMAIN Val(tls)[i] /\ "name" \in DOMAIN Val(tls)[j])
            => Val(tls)[i].name # Val(tls)[j].name

\* every descriptor of the registry has the three fields
WellFormed(tls) ==
    /\ Kind(tls) = "list"
    /\ \A i \in 1..Len(Val(tls)) :
         DOMAIN Val(tls)[i] = {"name", "description", "endpoint"}

\* no structured strategy gives a result for the text
NoStructuredArgs(s) ==
    ~list_style(s).hit /\ ~paren_style(s).hit /\ ~json_object_style(s).hit

-----------------------------------------------------------------------------
(* Properties *)

\* C1: a response without a marker (call_tool: followed by an identifier)
\* makes parse_tool_call return (None, None), and the turn prints the
\* response as the answer with no lookup in the registry and no tool call,
\* whatever brackets, parentheses, objects or numerals the response holds.
C1_NoMarkerIsDirectAnswer ==
    (llm_calls = 1 /\ pc # "ask_llm" /\ ~ContainsMarker(llm_response)) =>
        /\ parse_tool_call(llm_response) = <<PyNone, PyNone>>
        /\ pc \in {"route", "input"}
        /\ pc = "input" =>
             /\ printed = Printed("Assistant", PyStr(llm_response))
             /\ ~looked_up
             /\ match = 0
             /\ posts = <<>>

\* C1 witness: a turn has answered with a response that holds "call_tool:"
\* without an identifier, a parenthesized list, a bracketed array, an object
\* with an args key and numerals.
C1_Witness ==
    /\ pc = "input"
    /\ llm_response = H_bare \o P_two \o W_two \o O_list \o T_two
    /\ printed = Printed("Assistant", PyStr(llm_response))

\* C2: when the response holds a marker, a "with arguments:" followed by a
\* valid JSON array and a parenthesized list after the marker, the arguments
\* are the elements of the array.
C2_ArrayBeatsParentheses ==
    (Routed /\ Kind(tool_name) = "str" /\ HasParenList(llm_response)) =>
        \A a \in ArraysAfterWithArguments(llm_response) : args = a

\* C3: when the extracted name equals the name of no descriptor, compared
\* exactly, the turn sends nothing to a tool endpoint, logs the tool-not-found
\* warning, has made its one model call and waits for the next input.
C3_UnknownToolNotInvoked ==
    (llm_calls = 1 /\ Kind(tool_name) = "str" /\ ~Registered(Val(tool_name))) =>
        /\ pc = "input"
        /\ posts = <<>>
        /\ log = <<"warning: tool not found">>
        /\ printed = NothingPrinted
        /\ result = PyNone

\* C3 witness: the response names Add_numbers while the registry holds
\* add_numbers, and the turn is over.
C3_Witness ==
    /\ pc = "input"
    /\ tool_name = PyStr(<<"A", "d", "d", "_", "n", "u", "m", "b", "e", "r", "s">>)
    /\ Registered(N_add_numbers)
    /\ posts = <<>>

\* C4: the body of the request is fixed by the extracted arguments: none for
\* no argument, {args} for one, {args, a, b} with a and b the first two for two
\* or more; the turn sends one request at most.
C4_PayloadShape ==
    /\ pc = "call_tool" => PayloadFor(payload, args)
    /\ posts # <<>> =>
         /\ Len(posts) = 1
         /\ posts[1].endpoint = Val(tools)[match].endpoint
         /\ PayloadFor(posts[1].body, args)

\* C4 witness: a request has been sent for exactly two arguments.
C4_Witness ==
    /\ posts # <<>>
    /\ Kind(args) = "list"
    /\ Len(Val(args)) = 2
    /\ DictGet(posts[1].body, K_b) = Val(args)[2]

\* C5: a tool call that ends in a transport error, a timeout, a non-success
\* status or an unparseable body raises nothing: its result is {"error":
\* cause}, the result is printed and the loop waits for the next input.
C5_ToolFailureIsResult ==
    tool_reply.kind \notin {"none", "ok"} =>
        /\ pc = "input"
        /\ result = ErrorResult(tool_reply.cause)
        /\ printed = Printed("Tool result", result)

\* C5 witness: the endpoint answered with a body that is no JSON and the
\* turn is over.
C5_Witness ==
    /\ pc = "input"
    /\ tool_reply.kind = "body"
    /\ result = ErrorResult(E_body)

\* C6: for a response with a marker, the arguments equal every well-formed
\* JSON array that follows a "with arguments:", nested arrays and strings
\* holding a closing bracket included.
C6_ArrayAsJsonReadsIt ==
    (Routed /\ Kind(tool_name) = "str") =>
        \A a \in ArraysAfterWithArguments(llm_response) : args = a

\* C7: a number sequence written as 'call_tool:<name> with arguments:
\* [n1, n2, ...]' is extracted as <name> and the same sequence, integers as
\* integers and decimals as floats.
C7_NumberRoundTrip ==
    \A rt \in RoundTrips :
        (Routed /\ llm_response = rt[1]) =>
            /\ tool_name = PyStr(N_add_numbers)
            /\ args = PyList(rt[2])

\* C7 witness: the sequence -12, 3.5 has been written out and extracted.
C7_Witness ==
    /\ Routed
    /\ llm_response = EncodeList(N_add_numbers, <<PyInt(0 - 12), PyFloat(35, 1)>>)
    /\ args = PyList(<<PyInt(0 - 12), PyFloat(35, 1)>>)

C9_NumeralsInOrder ==
    /\ (Routed /\ Kind(tool_name) = "str" /\ NoStructuredArgs(llm_response)
               /\ Len(Numerals(llm_response)) >= 2) =>
           args = PyList(NumeralValues(llm_response))
    /\ (Routed /\ llm_response = H_add_numbers \o T_two) =>
           args = PyList(<<PyInt(3), PyInt(5)>>)

\* C9 witness: three numerals, one of them in the tool name and one a
\* negative decimal, have become the arguments 2, -4.5, 10.
C9_Witness ==
    /\ Routed
    /\ llm_response = H_tool2 \o T_signed
    /\ args = PyList(<<PyInt(2), PyFloat(0 - 45, 1), PyInt(10)>>)

\* C10: with a marker, no result of a structured strategy and one numeral at
\* most, parse_tool_call returns the name with no argument, and a registered
\* tool is called without a body.
C10_FewNumeralsNoArguments ==
    (Routed /\ Kind(tool_name) = "str" /\ NoStructuredArgs(llm_response)
            /\ Len(Numerals(llm_response)) <= 1) =>
        /\ tool_name = PyStr(FirstMarkerName(llm_response))
        /\ args = PyList(<<>>)
        /\ Registered(Val(tool_name)) =>
             /\ pc = "call_tool" => payload = PyNone
             /\ pc = "input" => /\ Len(posts) = 1
                                /\ posts[1].body = PyNone

\* C10 witness: 'call_tool:add_numbers add 7' has called the tool without a
\* body.
C10_Witness ==
    /\ pc = "input"
    /\ llm_response = H_add_numbers \o T_one
    /\ Len(posts) = 1
    /\ posts[1].body = PyNone

\* C11: with every model call and every tool call returning or timing out,
\* a turn that has left input() with a text that is no exit word comes back
\* to input(), and has then produced exactly one of a direct answer, a tool
\* result or a tool-not-found notice.
C11_TurnComesBack ==
    Resolving ~> (pc = "input" /\ ExactlyOneOutcome)

\* C12: the loop ends exactly when the text typed, lowered and taken as a
\* whole, is exit or quit; for that text no prompt is built and nothing is
\* sent to the model or to a tool; nothing else that a turn reads ends the
\* loop.
C12_ExitOnlyOnExitWord ==
    /\ LoopEnded <=> Lower(user_input) \in ExitWords
    /\ pc = "exit" => /\ prompt = NoPrompt
                      /\ llm_calls = 0
                      /\ posts = <<>>

\* C13: no failure seen in a turn ends the loop with a fault that nothing
\* handles, whatever discovery, the model and the tool answered, descriptors
\* without a name, a description or an endpoint included.
C13_NoFaultEndsTheLoop ==
    ~TurnFault

\* C14: when the fetch of the registry fails (the request raises, the status
\* is no success, the body is no JSON object), main goes on with an empty
\* registry: no fault, every response without a marker is printed as the
\* answer, every response with a marker gets the tool-not-found warning, and
\* nothing is ever sent to a tool.
C14_FailedDiscoveryEmptyRegistry ==
    DiscoveryFailed =>
        /\ tools = PyList(<<>>)
        /\ pc \notin {"crashed", "call_tool"}
        /\ posts = <<>>
        /\ (pc = "input" /\ llm_calls = 1) =>
             IF ContainsMarker(llm_response)
             THEN NotFoundNotice /\ printed = NothingPrinted
             ELSE printed = Printed("Assistant", PyStr(llm_response))

\* C14 witness: after a failed fetch the model has named add_numbers with an
\* array of arguments, and the turn has ended with the warning.
C14_Witness ==
    /\ DiscoveryFailed
    /\ pc = "input"
    /\ llm_response = H_add_numbers \o W_two
    /\ NotFoundNotice

\* C15: the registry is fetched once, before the first input, and no step
\* after that changes it; the prompt of a turn lists that whole registry, and
\* the descriptor found for the extracted name is one of that registry.
C15_OneSnapshot ==
    [][/\ discoveries' = 1
       /\ pc # "start" => (tools' = tools /\ discoveries' = discoveries)
       /\ prompt' # NoPrompt => PromptLists(prompt', tools')
       /\ match' # 0 => /\ match' \in 1..Len(Val(tools'))
                        /\ Val(tools')[match'].name = Val(tool_name')]_vars

\* C15 witness: a turn has called get_current_time, the second tool of the
\* registry, and its prompt lists both tools.
C15_Witness ==
    /\ pc = "input"
    /\ match = 2
    /\ posts # <<>>
    /\ Len(prompt.tools_text) = 2

\* C16: whatever the discovery response lists, no two descriptors of the
\* registry have the same name: of several with one name the first is kept.
C16_DuplicateNamesDropped ==
    Kind(tools) = "list" => DistinctNames(tools)

\* C17: when the request to the model fails, ask_llm returns the empty
\* string; the turn extracts nothing, looks nothing up, sends nothing to a
\* tool, prints an empty answer and the loop waits for the next input.
C17_ModelFailureIsEmptyAnswer ==
    LLMFailed =>
        /\ llm_response = <<>>
        /\ pc \in {"route", "input"}
        /\ tool_name = PyNone
        /\ args = PyNone
        /\ ~looked_up
        /\ posts = <<>>
        /\ pc = "input" => printed = Printed("Assistant", PyStr(<<>>))

\* C17 witness: the model could not be reached and the turn has printed the
\* empty answer.
C17_Witness ==
    /\ LLMFailed
    /\ pc = "input"
    /\ printed = Printed("Assistant", PyStr(<<>>))

\* C18: every argument that parse_tool_call returns is an integer, a float
\* or a string.
C18_ArgumentsAreScalars ==
    Kind(args) = "list" =>
        \A i \in 1..Len(Val(args)) : Kind(Val(args)[i]) \in {"int", "float", "str"}

\* C19: when the endpoint answers with a success status and a JSON body,
\* call_tool returns that body as it is, and the turn prints it as the tool
\* result.
C19_SuccessBodyVerbatim ==
    tool_reply.kind = "ok" =>
        /\ pc = "input"
        /\ result = tool_reply.body
        /\ printed = Printed("Tool result", tool_reply.body)

\* C19 witness: the endpoint has answered {"result": 8} and the turn has
\* printed it.
C19_Witness ==
    /\ tool_reply.kind = "ok"
    /\ printed = Printed("Tool result", PyDict(<< <<K_result, PyInt(8)>> >>))

\* what each position of a turn has behind it
TurnOrder ==
    /\ llm_calls <= 1
    /\ Len(posts) <= 1
    /\ pc = "ask_llm" => /\ prompt.user_input = user_input
                         /\ llm_calls = 0
                         /\ tool_name = PyNone
                         /\ posts = <<>>
    /\ pc = "route" => /\ llm_calls = 1
                       /\ tool_name = PyNone
                       /\ ~looked_up
                       /\ posts = <<>>
    /\ pc = "call_tool" => /\ llm_calls = 1
                           /\ Kind(tool_name) = "str"
                           /\ Registered(Val(tool_name))
                           /\ posts = <<>>
    /\ posts # <<>> => /\ pc = "input"
                       /\ llm_calls = 1
                       /\ Kind(tool_name) = "str"
                       /\ Registered(Val(tool_name))
    /\ (pc = "input" /\ user_input # <<>>) => llm_calls = 1

\* C20: in a turn the prompt is built before the model is called, the model
\* has answered before the response is parsed, and a tool is called only
\* after the name parsed was found in the registry; a turn calls the model
\* once and a tool once at most, and a turn starts only when the one before
\* is over.
C20_StepsInOrder ==
    [][/\ TurnOrder'
       /\ pc' = "ask_llm" => pc = "input"
       /\ pc' = "route" => pc = "ask_llm"
       /\ pc' = "call_tool" => pc = "route"
       /\ (pc' = "input" /\ pc # "start") => pc \in {"route", "call_tool"}]_vars

\* C20 witness: a turn is over that has called the model once and a tool
\* once, with two arguments.
C20_Witness ==
    /\ pc = "input"
    /\ llm_calls = 1
    /\ Len(posts) = 1
    /\ args = PyList(<<PyInt(3), PyInt(5)>>)

\* a bracketed text follows "with arguments:" and is not JSON
UnreadableArray(s) ==
    /\ \E i \in 1..Len(s) : s[i] = "["
    /\ ListGroup(s) # <<>>
    /\ ~json_loads(ListGroup(s)).ok

\* what the strategies below the bracketed array give, taken in their order
LowerStrategies(s) ==
    IF paren_style(s).hit THEN paren_style(s).args
    ELSE IF json_object_style(s).hit THEN json_object_style(s).args
    ELSE IF fallback_numbers(s).hit THEN fallback_numbers(s).args
    ELSE PyList(<<>>)

\* responses with an unreadable array and the arguments they must give
UnreadableExamples ==
    {<<H_add_numbers \o W_words, PyList(<<>>)>>,
     <<H_add_numbers \o P_two \o W_words, PyList(<<PyInt(3), PyInt(5)>>)>>,
     <<H_add_numbers \o W_words \o O_list,
       PyList(<<PyInt(1), PyStr(<<"a">>)>>)>>,
     <<H_add_numbers \o W_words \o T_two, PyList(<<PyInt(3), PyInt(5)>>)>>,
     <<H_add_numbers \o W_invalid \o O_list,
       PyList(<<PyInt(1), PyStr(<<"a">>)>>)>>,
     <<H_add_numbers \o W_invalid, PyList(<<PyInt(3), PyInt(5)>>)>>}

\* C21: when the bracketed text after "with arguments:" is not JSON, the
\* extraction still returns the name of the first marker, with the arguments
\* of the first of the parenthesized list, the embedded object and the numeric
\* scan that gives a result, or with the empty list.
C21_UnreadableArrayFallsThrough ==
    (Routed /\ Kind(tool_name) = "str" /\ UnreadableArray(llm_response)) =>
        /\ tool_name = PyStr(FirstMarkerName(llm_response))
        /\ args = LowerStrategies(llm_response)
        /\ \A e \in UnreadableExamples : llm_response = e[1] => args = e[2]

\* C21 witness: 'call_tool:add_numbers with arguments: [a, b] {"args": [1,
\* "a"]}' has given the array of the embedded object.
C21_Witness ==
    /\ Routed
    /\ llm_response = H_add_numbers \o W_words \o O_list
    /\ UnreadableArray(llm_response)
    /\ tool_name = PyStr(N_add_numbers)
    /\ args = PyList(<<PyInt(1), PyStr(<<"a">>)>>)

\* the text between the parentheses that directly follow the first marker,
\* or the empty text
FirstParenInterior(s) ==
    LET i == Min({n \in 1..Len(s) : StartsAt(s, n, S_call_tool)
                                    /\ IsIdentChar(CharAt(s, n + 10))})
        e == Min({n \in (i + 10)..(Len(s) + 1) : ~IsIdentChar(CharAt(s, n))})
        b == Min({n \in e..(Len(s) + 1) : ~IsSpace(CharAt(s, n))})
        closes == {n \in (b + 1)..Len(s) : s[n] = ")"}
    IN  IF CharAt(s, b) = "(" /\ closes # {}
        THEN Sub(s, b + 1, Min(closes) - 1)
        ELSE <<>>

\* its tokens that are not blank
ParenTokens(s) == SelectSeq(Split(FirstParenInterior(s), ","), NotBlank)

\* the args arrays of the JSON objects of the text, as a JSON parser reads
\* an object from its opening brace
ArgsObjects(s) ==
    {DictGet(JsonValue(s, i).val, S_args) :
       i \in {n \in 1..Len(s) :
                /\ s[n] = "{"
                /\ JsonValue(s, n).ok
                /\ Kind(JsonValue(s, n).val) = "dict"
                /\ Kind(DictGet(JsonValue(s, n).val, S_args)) = "list"}}

\* C22: with no result of the bracketed array, a parenthesized list with a
\* token that follows the marker gives the arguments whatever else the text
\* holds; with no parenthesized list that has content, a JSON object of the
\* text whose args is an array gives that array as it is, numerals or not.
C22_LowerStrategiesPriority ==
    (Routed /\ Kind(tool_name) = "str" /\ ~list_style(llm_response).hit) =>
        /\ ParenTokens(llm_response) # <<>> =>
             args = PyList(RuleCoerceAll(ParenTokens(llm_response)))
        /\ (~HasParenList(llm_response) /\ ArgsObjects(llm_response) # {}) =>
             args \in ArgsObjects(llm_response)

\* what a turn sends, prints and ends in, computed from the registry, the
\* response of the model and the reply of the tool alone
TurnOutcome(tls, response, reply) ==
    LET parsed == parse_tool_call(response)
        found == Lookup(Val(tls), parsed[1][2])
        sent == <<[endpoint |-> Val(tls)[found].endpoint,
                   body |-> build_payload(parsed[2])]>>
        Answer == <<"input", <<>>, Printed("Assistant", PyStr(response))>>
    IN  IF response = <<>> \/ ~Contains(response, S_call_tool) THEN Answer
        ELSE IF ~Truthy(parsed[1]) THEN Answer
        ELSE IF found = 0 THEN <<"input", <<>>, NothingPrinted>>
        ELSE IF "endpoint" \notin DOMAIN Val(tls)[found]
        THEN <<"crashed", <<>>, NothingPrinted>>
        ELSE <<"input", sent, Printed("Tool result", call_tool(reply).val)>>

\* the turn is over: the loop waits for the next input, or main has died
TurnOver == llm_calls = 1 /\ pc \in {"input", "crashed"}

\* C23: with the locals of the turn before left in place, the prompt of a
\* turn is the one built from the registry and the input of that turn, and
\* what the turn sends to a tool and prints is what the registry, the
\* response of the model and the reply of the tool of that turn give:
\* nothing of an earlier turn shows.
C23_TurnIndependence ==
    /\ pc \in {"ask_llm", "route", "call_tool"} \/ TurnOver =>
         prompt = build_prompt(tools, user_input).val
    /\ TurnOver =>
         <<pc, posts, printed>> = TurnOutcome(tools, llm_response, tool_reply)

\* C23 witness: a turn that called add_numbers has been followed by a turn
\* with a direct answer; the name, the arguments and the result of the call
\* are still there, and nothing was sent.
C23_Witness ==
    /\ TurnOver
    /\ pc = "input"
    /\ llm_response = Strip(T_two)
    /\ printed = Printed("Assistant", PyStr(Strip(T_two)))
    /\ posts = <<>>
    /\ tool_name = PyStr(N_add_numbers)
    /\ args = PyList(<<PyInt(3), PyInt(5)>>)
    /\ Kind(payload) = "dict"
    /\ Kind(result) = "dict"

\* the text that follows the identifier of the first marker
AfterName(s) ==
    LET i == Min({n \in 1..Len(s) : StartsAt(s, n, S_call_tool)
                                    /\ IsIdentChar(CharAt(s, n + 10))})
        e == Min({n \in (i + 10)..(Len(s) + 1) : ~IsIdentChar(CharAt(s, n))})
    IN  Sub(s, e, Len(s))

\* C24: the numeric scan reads the marker too: 'call_tool:tool2 add 7' gives
\* the arguments 2, 7; and whenever the scan gives the arguments of a
\* response that starts with a marker whose tool name holds digits, the
\* numerals of the name come first, before those of the text after it.
C24_NameDigitsAreScanned ==
    /\ (Routed /\ llm_response = H_tool2 \o T_one) =>
         /\ tool_name = PyStr(<<"t", "o", "o", "l", "2">>)
         /\ args = PyList(<<PyInt(2), PyInt(7)>>)
    /\ (Routed /\ Kind(tool_name) = "str"
               /\ StartsAt(llm_response, 1, S_call_tool)
               /\ Numerals(Val(tool_name)) # <<>>
               /\ Numerals(AfterName(llm_response)) # <<>>
               /\ CharAt(AfterName(llm_response), 1) # "."
               /\ NoStructuredArgs(llm_response)) =>
           args = PyList(NumeralValues(Val(tool_name))
                         \o NumeralValues(AfterName(llm_response)))

\* C24 witness: 'call_tool:tool2 add 7' has given the arguments 2, 7 for the
\* tool tool2.
C24_Witness ==
    /\ Routed
    /\ llm_response = H_tool2 \o T_one
    /\ tool_name = PyStr(<<"t", "o", "o", "l", "2">>)
    /\ args = PyList(<<PyInt(2), PyInt(7)>>)

\* what the strategies other than the parenthesized list give, in their order
WithoutParentheses(s) ==
    IF list_style(s).hit THEN list_style(s).args
    ELSE IF json_object_style(s).hit THEN json_object_style(s).args
    ELSE IF fallback_numbers(s).hit THEN fallback_numbers(s).args
    ELSE PyList(<<>>)

\* C25: the tool name is that of the first marker of the response, and when
\* no parenthesized list with content directly follows that first marker,
\* the arguments are not taken from parentheses: they are what the other
\* strategies give.
C25_ParenthesesOfTheFirstMarker ==
    (Routed /\ Kind(tool_name) = "str") =>
        /\ tool_name = PyStr(FirstMarkerName(llm_response))
        /\ Strip(FirstParenInterior(llm_response)) = <<>> =>
             args = WithoutParentheses(llm_response)

\* C26: a response that holds 'call_tool:' with no identifier character
\* right after it, such as 'call_tool: add_numbers', is a direct answer: the
\* extraction gives no name and no arguments, the whole response is printed
\* as the answer of the assistant after a warning, the registry is not
\* looked up, nothing is sent, and the loop waits for the next input.
C26_MarkerWithoutNameIsDirectAnswer ==
    (llm_calls = 1 /\ pc \notin {"ask_llm", "route"}
       /\ Contains(llm_response, S_call_tool)
       /\ ~ContainsMarker(llm_response)) =>
        /\ pc = "input"
        /\ tool_name = PyNone
        /\ args = PyNone
        /\ printed = Printed("Assistant", PyStr(llm_response))
        /\ log = <<"warning: no tool name">>
        /\ ~looked_up
        /\ match = 0
        /\ posts = <<>>
        /\ tool_reply = NoReply

\* C26 witness: 'call_tool: add_numbers' has been printed as the answer, with
\* the warning, and the loop waits.
C26_Witness ==
    /\ pc = "input"
    /\ llm_calls = 1
    /\ llm_response = H_bare
    /\ printed = Printed("Assistant", PyStr(H_bare))
    /\ log = <<"warning: no tool name">>
    /\ posts = <<>>

\* the result has the shape of a failure: an object with the one key error
FailureShape(r) ==
    /\ Kind(r) = "dict"
    /\ Len(Val(r)) = 1
    /\ Val(r)[1][1] = K_error

\* C27: after a call, the result has the shape of a failure exactly when the
\* invocation failed (no connection, timeout, status, unreadable body).
C27_FailureShapeIffFailed ==
    (pc = "input" /\ Len(posts) = 1) =>
        (FailureShape(result) <=> tool_reply.kind # "ok")

=============================================================================
